---- MODULE Spec2Model ----
(***************************************************************************)
(* The SystemRole admin-console component                                  *)
(* (components/admin_console/system_roles/system_role/system_role.tsx):    *)
(* its React state, the callbacks addUsersToRole, removeUserFromRole,      *)
(* updatePermission and the async handleSubmit, whose awaits are the only  *)
(* points at which other callbacks interleave.                             *)
(*                                                                         *)
(* Strings are sequences of one-character strings; a Dictionary is the     *)
(* sequence of its keys in insertion order (the order Object.keys yields), *)
(* the value stored under a user id being that user's profile.             *)
(***************************************************************************)
EXTENDS Integers, Sequences, FiniteSets, Bags, TLC

\* ---- bounds ----
MaxUsers == 2
MaxListLen == 2
MaxInFlight == 2
MaxSaveKey == 1
MaxRolesLen == 5

Users == 1..MaxUsers

NoError == 0

\* ---- strings ----
Chars == {"r", "s", " "}

RECURSIVE SplitRec(_, _)
SplitRec(s, cur) ==
    IF s = <<>> THEN <<cur>>
    ELSE IF Head(s) = " " THEN <<cur>> \o SplitRec(Tail(s), <<>>)
    ELSE SplitRec(Tail(s), Append(cur, Head(s)))

\* String.prototype.split(' ')
Split(s) == SplitRec(s, <<>>)

RECURSIVE Join(_)
\* Array.prototype.join(' ')
Join(toks) ==
    IF toks = <<>> THEN <<>>
    ELSE IF Len(toks) = 1 THEN toks[1]
    ELSE toks[1] \o <<" ">> \o Join(Tail(toks))

RECURSIVE UniqRec(_, _)
UniqRec(xs, seen) ==
    IF xs = <<>> THEN <<>>
    ELSE IF Head(xs) \in seen THEN UniqRec(Tail(xs), seen)
    ELSE <<Head(xs)>> \o UniqRec(Tail(xs), seen \cup {Head(xs)})

NoUniq(xs) == xs

\* lodash uniq: the first occurrence of every element, in order
Uniq(xs) == UniqRec(xs, {})

RemovedRolesUnfiltered(roles, name) == Join(Uniq(Split(roles)))

\* line 115: uniq(user.roles.split(' ').filter((r) => r !== role.name)).join(' ')
RemovedRoles(roles, name) ==
    Join(Uniq(SelectSeq(Split(roles), LAMBDA r : r # name)))

\* line 133: uniq([...user.roles.split(' '), role.name]).join(' ')
AddedRoles(roles, name) ==
    Join(Uniq(Append(Split(roles), name)))

\* ---- props ----
\* props.role.name
RoleName == <<"r">>

\* UserProfile.roles of the profile the member list hands over for a user id
UserRoles(u) ==
    CASE u % 4 = 1 -> <<"s">>
      [] u % 4 = 2 -> <<"r", " ", "s">>
      [] u % 4 = 3 -> <<>>
      [] OTHER     -> <<"s", " ", "r", " ", "s">>

\* ---- dictionaries ----
Has(d, k) == \E i \in 1..Len(d) : d[i] = k
Delete(d, k) == SelectSeq(d, LAMBDA x : x # k)
Put(d, k) == IF Has(d, k) THEN d ELSE Append(d, k)
Keys(d) == {d[i] : i \in 1..Len(d)}
Range(xs) == {xs[i] : i \in 1..Len(xs)}

\* ---- state ----
VARIABLES
    usersToAdd,           \* state.usersToAdd
    usersToRemove,        \* state.usersToRemove
    permissionsToUpdate,  \* state.permissionsToUpdate
    saving,               \* state.saving
    saveNeeded,           \* state.saveNeeded
    serverError,          \* state.serverError: NoError, or the id of the user whose call's error is shown
    saveKey,              \* state.saveKey
    submits,              \* the bag of handleSubmit invocations suspended at an await
    lastOp,               \* history: the latest addUsersToRole, removeUserFromRole or return of handleSubmit
    roleCalc              \* the role-list computations of handleSubmit applied to one input

vars == <<usersToAdd, usersToRemove, permissionsToUpdate, saving, saveNeeded,
          serverError, saveKey, submits, lastOp, roleCalc>>

PermissionNames == {"p1"}
PermissionValues == {"read", "write", "false"}

\* the locals of one handleSubmit invocation
NewSubmit ==
    [pc |-> "start", usersToRemove |-> <<>>, usersToAdd |-> <<>>,
     removeCalls |-> <<>>, removeResult |-> <<>>,
     addCalls |-> <<>>, addResult |-> <<>>,
     firstFailed |-> NoError, startKey |-> 0]

NoCalc == [roles |-> <<>>, name |-> RoleName, op |-> "none", out |-> <<>>]

NoOp ==
    [op |-> "none", users |-> <<>>, cancelled |-> {}, outcome |-> "none",
     toRemove |-> 0, toAdd |-> 0, nRemove |-> 0, nAdd |-> 0, firstFailed |-> NoError]

\* lines 46-58
Init ==
    /\ usersToAdd = <<>>
    /\ usersToRemove = <<>>
    /\ permissionsToUpdate = [p \in PermissionNames |-> "unset"]
    /\ saving = FALSE
    /\ saveNeeded = FALSE
    /\ serverError = NoError
    /\ saveKey = 0
    /\ submits = EmptyBag
    /\ lastOp = NoOp
    /\ roleCalc = NoCalc

getSaveNeededAddOnly(toAdd, toRemove) == Len(toAdd) > 0

\* lines 60-65
getSaveNeeded(toAdd, toRemove) == Len(toAdd) > 0 \/ Len(toRemove) > 0

RECURSIVE AddLoopNoCancel(_, _, _)
AddLoopNoCancel(users, toAdd, toRemove) ==
    IF users = <<>> THEN <<toAdd, toRemove>>
    ELSE AddLoopNoCancel(Tail(users), Put(toAdd, Head(users)), toRemove)

RECURSIVE AddLoop(_, _, _)
\* lines 74-80: the forEach over users; yields <<usersToAdd, usersToRemove>>
AddLoop(users, toAdd, toRemove) ==
    IF users = <<>> THEN <<toAdd, toRemove>>
    ELSE IF Has(toRemove, Head(users))
         THEN AddLoop(Tail(users), toAdd, Delete(toRemove, Head(users)))
         ELSE AddLoop(Tail(users), Put(toAdd, Head(users)), toRemove)

UserLists == UNION {[1..n -> Users] : n \in 1..MaxListLen}

\* lines 67-83
addUsersToRole(users) ==
    LET r == AddLoop(users, usersToAdd, usersToRemove) IN
    /\ usersToAdd' = r[1]
    /\ usersToRemove' = r[2]
    /\ saveNeeded' = getSaveNeeded(r[1], r[2])
    /\ lastOp' = [NoOp EXCEPT !.op = "addUsers", !.users = users,
                              !.cancelled = {u \in Range(users) : Has(usersToRemove, u)}]
    /\ UNCHANGED <<permissionsToUpdate, saving, serverError, saveKey, submits, roleCalc>>

removeUserNoCancel(user) ==
    /\ usersToAdd' = usersToAdd
    /\ usersToRemove' = Put(usersToRemove, user)
    /\ saveNeeded' = getSaveNeeded(usersToAdd, Put(usersToRemove, user))
    /\ lastOp' = [NoOp EXCEPT !.op = "removeUser", !.users = <<user>>,
                              !.cancelled = {u \in {user} : Has(usersToAdd, u)}]
    /\ UNCHANGED <<permissionsToUpdate, saving, serverError, saveKey, submits, roleCalc>>

\* lines 85-98
removeUserFromRole(user) ==
    LET toAdd == IF Has(usersToAdd, user) THEN Delete(usersToAdd, user) ELSE usersToAdd
        toRemove == IF Has(usersToAdd, user) THEN usersToRemove ELSE Put(usersToRemove, user)
    IN
    /\ usersToAdd' = toAdd
    /\ usersToRemove' = toRemove
    /\ saveNeeded' = getSaveNeeded(toAdd, toRemove)
    /\ lastOp' = [NoOp EXCEPT !.op = "removeUser", !.users = <<user>>,
                              !.cancelled = {u \in {user} : Has(usersToAdd, u)}]
    /\ UNCHANGED <<permissionsToUpdate, saving, serverError, saveKey, submits, roleCalc>>

updatePermissionNeedsSave(name, value) ==
    /\ permissionsToUpdate' = [permissionsToUpdate EXCEPT ![name] = value]
    /\ saveNeeded' = TRUE
    /\ UNCHANGED <<usersToAdd, usersToRemove, saving, serverError, saveKey,
                   submits, lastOp, roleCalc>>

\* lines 161-168
updatePermission(name, value) ==
    /\ permissionsToUpdate' = [permissionsToUpdate EXCEPT ![name] = value]
    /\ UNCHANGED <<usersToAdd, usersToRemove, saving, saveNeeded, serverError, saveKey,
                   submits, lastOp, roleCalc>>

\* lines 113-117: one updateUserRoles(userId, updatedRoles) per key of usersToRemove
RemoveCallsOf(toRemove) ==
    [k \in 1..Len(toRemove) |->
        [fn |-> "updateUserRoles", userId |-> toRemove[k],
         roles |-> RemovedRoles(UserRoles(toRemove[k]), RoleName)]]

\* lines 131-135: one updateUserRoles(userId, updatedRoles) per key of usersToAdd
AddCallsOf(toAdd) ==
    [k \in 1..Len(toAdd) |->
        [fn |-> "updateUserRoles", userId |-> toAdd[k],
         roles |-> AddedRoles(UserRoles(toAdd[k]), RoleName)]]

Pending(calls) == [k \in 1..Len(calls) |-> "pending"]
AllResolved(result) == \A k \in 1..Len(result) : result[k] # "pending"

FindLastError(calls, result) ==
    IF \E k \in 1..Len(result) : result[k] = "err"
    THEN calls[CHOOSE k \in 1..Len(result) :
                  /\ result[k] = "err"
                  /\ \A j \in (k + 1)..Len(result) : result[j] # "err"].userId
    ELSE NoError

\* lines 120-125, 138-143: result.find(isError), the first error of the result array
FindError(calls, result) ==
    IF \E k \in 1..Len(result) : result[k] = "err"
    THEN calls[CHOOSE k \in 1..Len(result) :
                  /\ result[k] = "err"
                  /\ \A j \in 1..(k - 1) : result[j] # "err"].userId
    ELSE NoError

AnyError(result) == \E k \in 1..Len(result) : result[k] = "err"

\* what the returning invocation did: the phase a call failed in (if any), the calls
\* issued in each phase, and the failing call that resolved first
Outcome(rec) ==
    [NoOp EXCEPT !.op = "return",
                 !.outcome = IF AnyError(rec.removeResult) THEN "removeErr"
                             ELSE IF AnyError(rec.addResult) THEN "addErr" ELSE "ok",
                 !.toRemove = Len(rec.usersToRemove), !.toAdd = Len(rec.usersToAdd),
                 !.nRemove = Len(rec.removeCalls), !.nAdd = Len(rec.addCalls),
                 !.firstFailed = rec.firstFailed]

FinishStaysSaving(rest, rec, err) ==
    /\ saveNeeded' = (err # NoError)
    /\ saving' = saving
    /\ serverError' = err
    /\ usersToAdd' = <<>>
    /\ usersToRemove' = <<>>
    /\ saveKey' = IF err = NoError THEN saveKey + 1 ELSE saveKey
    /\ submits' = rest
    /\ lastOp' = Outcome(rec)
    /\ UNCHANGED <<permissionsToUpdate, roleCalc>>

FinishCountsFailures(rest, rec, err) ==
    /\ saveNeeded' = (err # NoError)
    /\ saving' = FALSE
    /\ serverError' = err
    /\ usersToAdd' = <<>>
    /\ usersToRemove' = <<>>
    /\ saveKey' = saveKey + 1
    /\ submits' = rest
    /\ lastOp' = Outcome(rec)
    /\ UNCHANGED <<permissionsToUpdate, roleCalc>>

FinishKeepsError(rest, rec, err) ==
    /\ saveNeeded' = (err # NoError)
    /\ saving' = FALSE
    /\ serverError' = IF err = NoError THEN serverError ELSE err
    /\ usersToAdd' = <<>>
    /\ usersToRemove' = <<>>
    /\ saveKey' = IF err = NoError THEN saveKey + 1 ELSE saveKey
    /\ submits' = rest
    /\ lastOp' = Outcome(rec)
    /\ UNCHANGED <<permissionsToUpdate, roleCalc>>

FinishSameKey(rest, rec, err) ==
    /\ saveNeeded' = (err # NoError)
    /\ saving' = FALSE
    /\ serverError' = err
    /\ usersToAdd' = <<>>
    /\ usersToRemove' = <<>>
    /\ saveKey' = saveKey
    /\ submits' = rest
    /\ lastOp' = Outcome(rec)
    /\ UNCHANGED <<permissionsToUpdate, roleCalc>>

\* lines 146-158: the closing setState; handleSubmit returns
Finish(rest, rec, err) ==
    /\ saveNeeded' = (err # NoError)
    /\ saving' = FALSE
    /\ serverError' = err
    /\ usersToAdd' = <<>>
    /\ usersToRemove' = <<>>
    /\ saveKey' = IF err = NoError THEN saveKey + 1 ELSE saveKey
    /\ submits' = rest
    /\ lastOp' = Outcome(rec)
    /\ UNCHANGED <<permissionsToUpdate, roleCalc>>

\* a handleSubmit suspends at an await, state.saving and state.saveNeeded being sv and sn
Suspend(rest, rec, sv, sn) ==
    /\ submits' = rest (+) SetToBag({rec})
    /\ saving' = sv
    /\ saveNeeded' = sn
    /\ UNCHANGED <<usersToAdd, usersToRemove, permissionsToUpdate, serverError, saveKey,
                   lastOp, roleCalc>>

IssueAddsFromState(rec) ==
    [rec EXCEPT !.pc = "awaitAdd",
                !.addCalls = AddCallsOf(usersToAdd),
                !.addResult = Pending(usersToAdd),
                !.firstFailed = NoError]

\* lines 128-135: the addition-phase calls are issued
IssueAdds(rec) ==
    [rec EXCEPT !.pc = "awaitAdd",
                !.addCalls = AddCallsOf(rec.usersToAdd),
                !.addResult = Pending(rec.usersToAdd),
                !.firstFailed = NoError]

IssueRemovesAndAdds(rec) ==
    [rec EXCEPT !.pc = "awaitRemove",
                !.removeCalls = RemoveCallsOf(rec.usersToRemove),
                !.removeResult = Pending(rec.usersToRemove),
                !.addCalls = AddCallsOf(rec.usersToAdd),
                !.addResult = Pending(rec.usersToAdd)]

\* lines 111-117: the removal-phase calls are issued
IssueRemoves(rec) ==
    [rec EXCEPT !.pc = "awaitRemove",
                !.removeCalls = RemoveCallsOf(rec.usersToRemove),
                !.removeResult = Pending(rec.usersToRemove)]

AddsWantedWhateverFailed(rec, err) == Len(rec.usersToAdd) > 0

\* line 129: the addition phase runs
AddsWanted(rec, err) == Len(rec.usersToAdd) > 0 /\ err = NoError

\* lines 128-158: the addition phase up to its await, or the rest of the handler
AdditionPhase(rest, rec, err, sv, sn) ==
    IF AddsWanted(rec, err)
    THEN Suspend(rest, IssueAdds(rec), sv, sn)
    ELSE Finish(rest, rec, err)

\* SaveChangesPanel offers the save action when save-needed is set
SaveEnabled == saveNeeded

\* lines 100-119: handleSubmit up to its first await (or to its end when nothing is pending)
handleSubmit ==
    /\ SaveEnabled
    /\ saveKey < MaxSaveKey
    /\ BagCardinality(submits) < MaxInFlight
    /\ LET rec == [NewSubmit EXCEPT !.usersToRemove = usersToRemove,
                                    !.usersToAdd = usersToAdd,
                                    !.startKey = saveKey]
       IN IF Len(rec.usersToRemove) > 0
          THEN Suspend(submits, IssueRemoves(rec), TRUE, FALSE)
          ELSE AdditionPhase(submits, rec, NoError, TRUE, FALSE)

\* promise k of the awaited Promise.all resolves with res
Resolve(rec, k, res) ==
    IF rec.pc = "awaitRemove"
    THEN [rec EXCEPT !.removeResult[k] = res,
                     !.firstFailed = IF res = "err" /\ rec.firstFailed = NoError
                                     THEN rec.removeCalls[k].userId ELSE rec.firstFailed]
    ELSE [rec EXCEPT !.addResult[k] = res,
                     !.firstFailed = IF res = "err" /\ rec.firstFailed = NoError
                                     THEN rec.addCalls[k].userId ELSE rec.firstFailed]

Others(rec) == submits (-) SetToBag({rec})

\* a removal-phase updateUserRoles promise resolves; lines 119-127 run once all have
ResolveRemove(rec, k, res) ==
    /\ BagIn(rec, submits)
    /\ rec.pc = "awaitRemove"
    /\ k \in 1..Len(rec.removeResult)
    /\ rec.removeResult[k] = "pending"
    /\ LET now == Resolve(rec, k, res) IN
       IF AllResolved(now.removeResult)
       THEN AdditionPhase(Others(rec), now, FindError(now.removeCalls, now.removeResult),
                          saving, saveNeeded)
       ELSE Suspend(Others(rec), now, saving, saveNeeded)

\* an addition-phase updateUserRoles promise resolves; lines 137-158 run once all have
ResolveAdd(rec, k, res) ==
    /\ BagIn(rec, submits)
    /\ rec.pc = "awaitAdd"
    /\ k \in 1..Len(rec.addResult)
    /\ rec.addResult[k] = "pending"
    /\ LET now == Resolve(rec, k, res) IN
       IF AllResolved(now.addResult)
       THEN Finish(Others(rec), now, FindError(now.addCalls, now.addResult))
       ELSE Suspend(Others(rec), now, saving, saveNeeded)

InFlight == BagToSet(submits)
Results == {"ok", "err"}

Next ==
    \/ \E users \in UserLists : addUsersToRole(users)
    \/ \E user \in Users : removeUserFromRole(user)
    \/ \E name \in PermissionNames, value \in PermissionValues : updatePermission(name, value)
    \/ handleSubmit
    \/ \E rec \in InFlight, k \in 1..MaxUsers, res \in Results : ResolveRemove(rec, k, res)
    \/ \E rec \in InFlight, k \in 1..MaxUsers, res \in Results : ResolveAdd(rec, k, res)

Spec == Init /\ [][Next]_vars

\* some awaited updateUserRoles promise resolves
CallResolves ==
    \E rec \in InFlight, k \in 1..MaxUsers, res \in Results :
        ResolveRemove(rec, k, res) \/ ResolveAdd(rec, k, res)

\* the steps that touch what handleSubmit reads or writes (updatePermission, lines
\* 161-168, writes permissionsToUpdate only)
NextLive ==
    \/ \E users \in UserLists : addUsersToRole(users)
    \/ \E user \in Users : removeUserFromRole(user)
    \/ handleSubmit
    \/ CallResolves

\* every remote call that is awaited eventually completes
SpecLive == Init /\ [][NextLive]_vars /\ WF_vars(CallResolves)

\* ---- the role-list computations on every short role string ----
Strings == UNION {[1..n -> Chars] : n \in 0..MaxRolesLen}
RoleNames == {<<"r">>, <<"s">>, <<"r", "s">>}

InitRoles ==
    /\ usersToAdd = <<>>
    /\ usersToRemove = <<>>
    /\ permissionsToUpdate = [p \in PermissionNames |-> "unset"]
    /\ saving = FALSE
    /\ saveNeeded = FALSE
    /\ serverError = NoError
    /\ saveKey = 0
    /\ submits = EmptyBag
    /\ lastOp = NoOp
    /\ roleCalc \in {[roles |-> s, name |-> n, op |-> "none", out |-> <<>>] :
                        s \in Strings, n \in RoleNames}

ComputeRemove ==
    /\ roleCalc.op = "none"
    /\ roleCalc' = [roleCalc EXCEPT !.op = "remove",
                                    !.out = RemovedRoles(roleCalc.roles, roleCalc.name)]
    /\ UNCHANGED <<usersToAdd, usersToRemove, permissionsToUpdate, saving, saveNeeded,
                   serverError, saveKey, submits, lastOp>>

ComputeAdd ==
    /\ roleCalc.op = "none"
    /\ roleCalc' = [roleCalc EXCEPT !.op = "add",
                                    !.out = AddedRoles(roleCalc.roles, roleCalc.name)]
    /\ UNCHANGED <<usersToAdd, usersToRemove, permissionsToUpdate, saving, saveNeeded,
                   serverError, saveKey, submits, lastOp>>

NextRoles == ComputeRemove \/ ComputeAdd

SpecRoles == InitRoles /\ [][NextRoles]_vars

\* ---- properties ----
NonEmpty == Len(usersToAdd) > 0 \/ Len(usersToRemove) > 0
Failed(rec) == AnyError(rec.removeResult) \/ AnyError(rec.addResult)
CallIds(calls) == [k \in 1..Len(calls) |-> calls[k].userId]

\* the step in which the invocation suspended as rec returns, promise k resolving with res
Returns(rec, k, res) ==
    /\ submits' # submits
    /\ submits' = Others(rec)
    /\ ResolveRemove(rec, k, res) \/ ResolveAdd(rec, k, res)

\* the step in which a handleSubmit runs from start to end without reaching an await
ReturnsAtOnce == handleSubmit /\ submits' = submits

\* C1: a submit in which a remote call returned an error leaves both pending maps as
\* they were when it started.
C1_PendingKeptOnError ==
    [][\A rec \in InFlight, k \in 1..MaxUsers, res \in Results :
          (Returns(rec, k, res) /\ Failed(Resolve(rec, k, res)))
              => /\ usersToAdd' = rec.usersToAdd
                 /\ usersToRemove' = rec.usersToRemove]_vars

\* C2 as stated: saveNeeded is true exactly when a pending map is non-empty, in every
\* reachable state.
C2_SaveNeededIffPending == saveNeeded <=> NonEmpty

\* C2 as amended: saveNeeded differs from "a pending map is non-empty" only in two ways:
\* it is false with pending changes only while a submit is in flight, and true with
\* both maps empty only while the error of a failed submit is shown; with no submit in
\* flight and no error shown the two agree.
C2_SaveNeededAmended ==
    /\ (NonEmpty /\ ~saveNeeded) => submits # EmptyBag
    /\ (saveNeeded /\ ~NonEmpty) => serverError # NoError
    /\ (submits = EmptyBag /\ serverError = NoError) => (saveNeeded <=> NonEmpty)

C2_Witness ==
    /\ submits = EmptyBag /\ serverError = NoError /\ saveKey > 0
    /\ saveNeeded /\ Len(usersToRemove) > 0

\* C3: a submit one of whose removal-phase calls returned an error issues no
\* addition-phase call.
C3_NoAddsAfterRemoveError ==
    /\ \A rec \in InFlight : AnyError(rec.removeResult) => rec.addCalls = <<>>
    /\ lastOp.outcome = "removeErr" => lastOp.nAdd = 0

C3_Witness ==
    /\ lastOp.op = "return" /\ lastOp.outcome = "removeErr"
    /\ lastOp.toAdd > 0 /\ lastOp.nAdd = 0

Occurrences(xs, x) == Cardinality({i \in 1..Len(xs) : xs[i] = x})

\* C4 as stated: every user of the list who had a pending removal has, after
\* addUsers, neither a pending removal nor a pending addition.
C4_AddCancelsRemoval ==
    [][\A users \in UserLists :
          addUsersToRole(users) =>
              \A u \in Range(users) :
                  Has(usersToRemove, u) => ~Has(usersToRemove', u) /\ ~Has(usersToAdd', u)]_vars

\* C4 as amended: a user of the list who had a pending removal has no pending removal
\* after addUsers; the user has no pending addition either when the list names the user
\* once, and has a pending addition when the list names the user more than once.
C4_AddCancelsRemovalAmended ==
    [][\A users \in UserLists :
          addUsersToRole(users) =>
              \A u \in Range(users) :
                  Has(usersToRemove, u) =>
                      /\ ~Has(usersToRemove', u)
                      /\ Has(usersToAdd', u) <=> (Occurrences(users, u) > 1)]_vars

C4_Witness ==
    /\ lastOp.op = "addUsers"
    /\ \E u \in lastOp.cancelled :
          /\ Occurrences(lastOp.users, u) = 1
          /\ ~Has(usersToRemove, u) /\ ~Has(usersToAdd, u)
    /\ NonEmpty

\* C5: removeUser of a user with a pending addition leaves the user with neither a
\* pending addition nor a pending removal; removeUser of a user without one leaves
\* the user with a pending removal; every other user's entries stay as they were.
C5_RemoveCancelsAddition ==
    [][\A user \in Users :
          removeUserFromRole(user) =>
              /\ Has(usersToAdd, user) => ~Has(usersToAdd', user) /\ ~Has(usersToRemove', user)
              /\ ~Has(usersToAdd, user) => Has(usersToRemove', user) /\ ~Has(usersToAdd', user)
              /\ \A v \in Users \ {user} :
                    /\ Has(usersToAdd', v) <=> Has(usersToAdd, v)
                    /\ Has(usersToRemove', v) <=> Has(usersToRemove, v)]_vars

C5_Witness ==
    /\ lastOp.op = "removeUser" /\ lastOp.cancelled # {}
    /\ \A u \in lastOp.cancelled : ~Has(usersToAdd, u) /\ ~Has(usersToRemove, u)
    /\ NonEmpty

\* the invocation that returns in this step issued one removal-phase call per pending
\* removal and one addition-phase call per pending addition, and leaves the state saved
SavedBy(now) ==
    /\ CallIds(now.removeCalls) = now.usersToRemove
    /\ CallIds(now.addCalls) = now.usersToAdd
    /\ Len(now.removeCalls) + Len(now.addCalls) = Len(now.usersToRemove) + Len(now.usersToAdd)
    /\ usersToAdd' = <<>> /\ usersToRemove' = <<>>
    /\ ~saveNeeded' /\ ~saving'

\* C6 as stated: a submit all of whose calls succeed issues exactly r + a calls, empties
\* both pending maps, leaves saveNeeded and saving false, and leaves saveKey one more
\* than it was when the submit started.
C6_SuccessfulSubmit ==
    [][/\ ReturnsAtOnce => SavedBy(NewSubmit) /\ saveKey' = saveKey + 1
       /\ \A rec \in InFlight, k \in 1..MaxUsers, res \in Results :
             (Returns(rec, k, res) /\ ~Failed(Resolve(rec, k, res)))
                 => SavedBy(Resolve(rec, k, res)) /\ saveKey' = rec.startKey + 1]_vars

\* C6 as amended: the same, except that saveKey is one more than it was just before
\* the submit returned, which is at least one more than when the submit started (more
\* when another submit returned successfully in between).
C6_SuccessfulSubmitAmended ==
    [][/\ ReturnsAtOnce => SavedBy(NewSubmit) /\ saveKey' = saveKey + 1
       /\ \A rec \in InFlight, k \in 1..MaxUsers, res \in Results :
             (Returns(rec, k, res) /\ ~Failed(Resolve(rec, k, res)))
                 => /\ SavedBy(Resolve(rec, k, res))
                    /\ saveKey' = saveKey + 1
                    /\ saveKey' >= rec.startKey + 1]_vars

C6_Witness ==
    /\ lastOp.op = "return" /\ lastOp.outcome = "ok"
    /\ lastOp.toRemove > 0 /\ lastOp.toAdd > 0
    /\ lastOp.nRemove = lastOp.toRemove /\ lastOp.nAdd = lastOp.toAdd
    /\ saveKey > 0 /\ ~saving /\ ~saveNeeded

NoDuplicates(xs) == \A i, j \in 1..Len(xs) : xs[i] = xs[j] => i = j

\* C7: the role list an addition-phase call sends names this role exactly once and no
\* role more than once, also when the user's roles already name this role.
C7_AddedRolesDeduplicated ==
    roleCalc.op = "add" =>
        /\ Occurrences(Split(roleCalc.out), roleCalc.name) = 1
        /\ NoDuplicates(Split(roleCalc.out))

C7_Witness ==
    /\ roleCalc.op = "add"
    /\ Occurrences(Split(roleCalc.roles), roleCalc.name) = 2
    /\ Occurrences(Split(roleCalc.out), roleCalc.name) = 1

\* C8: a submit issues no addition-phase call before every one of its removal-phase
\* calls has completed, and has issued every removal-phase call when it awaits them.
C8_RemovalsBeforeAdditions ==
    \A rec \in InFlight :
        /\ rec.addCalls # <<>> => AllResolved(rec.removeResult)
        /\ rec.pc = "awaitRemove" =>
              /\ CallIds(rec.removeCalls) = rec.usersToRemove
              /\ Len(rec.removeResult) = Len(rec.removeCalls)
              /\ rec.addCalls = <<>>

C8_Witness ==
    \E rec \in InFlight :
        /\ rec.pc = "awaitAdd"
        /\ rec.removeCalls # <<>> /\ AllResolved(rec.removeResult)
        /\ rec.addCalls # <<>>

Errors(result) == Cardinality({k \in 1..Len(result) : result[k] = "err"})
FinalCalls(now) == IF now.pc = "awaitRemove" THEN now.removeCalls ELSE now.addCalls
FinalResult(now) == IF now.pc = "awaitRemove" THEN now.removeResult ELSE now.addResult

\* C9 as stated: when several calls of a phase return an error, serverError is the
\* error of the failing call that completed first.
C9_FirstCompletedError ==
    [][\A rec \in InFlight, k \in 1..MaxUsers, res \in Results :
          (Returns(rec, k, res) /\ Errors(FinalResult(Resolve(rec, k, res))) > 1)
              => serverError' = Resolve(rec, k, res).firstFailed]_vars

\* C9 as amended: when several calls of a phase return an error, serverError is the
\* error of the failing call that was issued first, whatever order the calls complete in.
C9_FirstIssuedError ==
    [][\A rec \in InFlight, k \in 1..MaxUsers, res \in Results :
          (Returns(rec, k, res) /\ Errors(FinalResult(Resolve(rec, k, res))) > 1)
              => LET now == Resolve(rec, k, res) IN
                 \E e \in 1..Len(FinalResult(now)) :
                     /\ FinalResult(now)[e] = "err"
                     /\ \A j \in 1..Len(FinalResult(now)) : FinalResult(now)[j] = "err" => e <= j
                     /\ serverError' = FinalCalls(now)[e].userId]_vars

C9_Witness ==
    /\ lastOp.op = "return" /\ lastOp.outcome \in {"removeErr", "addErr"}
    /\ lastOp.firstFailed # NoError
    /\ serverError # NoError
    /\ serverError # lastOp.firstFailed

\* C10: no user id is a key of both usersToAdd and usersToRemove.
C10_PendingDisjoint == Keys(usersToAdd) \cap Keys(usersToRemove) = {}

C10_Witness ==
    /\ usersToAdd # <<>> /\ usersToRemove # <<>>
    /\ lastOp.op \in {"addUsers", "removeUser"}

PendingIn(rec) ==
    Cardinality({k \in 1..Len(rec.removeResult) : rec.removeResult[k] = "pending"})
    + Cardinality({k \in 1..Len(rec.addResult) : rec.addResult[k] = "pending"})

RECURSIVE PendingSum(_, _)
PendingSum(set, b) ==
    IF set = {} THEN 0
    ELSE LET rec == CHOOSE x \in set : TRUE
         IN CopiesIn(rec, b) * PendingIn(rec) + PendingSum(set \ {rec}, b)

\* the remote calls awaiting their result in bag b of suspended invocations
PendingCalls(b) == PendingSum(BagToSet(b), b)

FailingIds(now) ==
    {FinalCalls(now)[k].userId : k \in {j \in 1..Len(FinalResult(now)) : FinalResult(now)[j] = "err"}}

\* C11: with every awaited call eventually completing, a submit returns and leaves
\* saving false: a suspended submit waits for a remote call only, and it returns in
\* the step its last call completes. If a call returned an error it returns with
\* saveNeeded true and serverError the error of a failing call. Remote calls are
\* issued only by an invocation of submit going through its phases: a return issues
\* none, and a failed removal phase is followed by none.
C11_SubmitReturns ==
    /\ [](\A rec \in InFlight :
             /\ rec.pc = "awaitRemove" => ~AllResolved(rec.removeResult)
             /\ rec.pc = "awaitAdd" => ~AllResolved(rec.addResult))
    /\ [][\A rec \in InFlight, k \in 1..MaxUsers, res \in Results :
             LET now == Resolve(rec, k, res) IN
             /\ (Returns(rec, k, res) /\ Failed(now))
                   => /\ ~saving' /\ saveNeeded'
                      /\ serverError' \in FailingIds(now)
             /\ (Returns(rec, k, res) /\ ~Failed(now)) => ~saving'
             /\ (submits' # submits /\ (ResolveRemove(rec, k, res) \/ ResolveAdd(rec, k, res))
                   /\ PendingCalls(submits') >= PendingCalls(submits))
                   => /\ rec.pc = "awaitRemove" /\ ~AnyError(now.removeResult)
                      /\ AllResolved(now.removeResult)
                      /\ PendingCalls(submits') = PendingCalls(submits) - 1 + Len(rec.usersToAdd)]_vars
    /\ saving ~> ~saving

C11_Witness ==
    /\ lastOp.op = "return" /\ lastOp.outcome \in {"removeErr", "addErr"}
    /\ submits = EmptyBag
    /\ ~saving /\ saveNeeded /\ serverError # NoError

\* C12: the role list a removal-phase call sends does not name this role, names every
\* other role of the user's role list, and names no role more than once.
C12_RemovedRolesFiltered ==
    roleCalc.op = "remove" =>
        LET had == Split(roleCalc.roles)
            sent == Split(roleCalc.out)
        IN /\ Occurrences(sent, roleCalc.name) = 0
           /\ \A t \in Range(had) \ {roleCalc.name} : Occurrences(sent, t) = 1
           /\ NoDuplicates(sent)

C12_Witness ==
    /\ roleCalc.op = "remove"
    /\ Occurrences(Split(roleCalc.roles), roleCalc.name) > 0
    /\ \E t \in Range(Split(roleCalc.roles)) \ {roleCalc.name, <<>>} :
          /\ Occurrences(Split(roleCalc.roles), t) > 1
          /\ Occurrences(Split(roleCalc.out), t) = 1

\* C13: saveKey starts at 0; it changes only when a submit returns none of whose
\* calls returned an error, and then grows by exactly 1; a submit that returns after
\* an error, addUsers, removeUser and updatePermission leave it as it is.
C13_SaveKeyCountsSaves ==
    /\ saveKey = 0
    /\ [][/\ saveKey' # saveKey =>
              /\ saveKey' = saveKey + 1
              /\ \/ ReturnsAtOnce
                 \/ \E rec \in InFlight, k \in 1..MaxUsers, res \in Results :
                       Returns(rec, k, res) /\ ~Failed(Resolve(rec, k, res))
          /\ ReturnsAtOnce => saveKey' = saveKey + 1
          /\ \A rec \in InFlight, k \in 1..MaxUsers, res \in Results :
                Returns(rec, k, res) =>
                    saveKey' = IF Failed(Resolve(rec, k, res)) THEN saveKey ELSE saveKey + 1]_vars

C13_Witness ==
    /\ lastOp.op = "return" /\ lastOp.outcome \in {"removeErr", "addErr"}
    /\ saveKey = 1

SameSnapshot(rec, now) ==
    /\ now.usersToAdd = rec.usersToAdd
    /\ now.usersToRemove = rec.usersToRemove
    /\ now.removeCalls = rec.removeCalls

\* C15: the calls a submit issues are those of the pending maps at the moment it is
\* invoked: its removal-phase calls are the pending removals and its addition-phase
\* calls the pending additions of that moment, whatever addUsers and removeUser do
\* while the removal-phase calls are in flight; those two change no suspended submit.
C15_CallsFixedAtInvocation ==
    /\ [](\A rec \in InFlight :
             /\ CallIds(rec.removeCalls) = rec.usersToRemove
             /\ rec.pc = "awaitAdd" => CallIds(rec.addCalls) = rec.usersToAdd
             /\ rec.pc = "awaitRemove" => rec.addCalls = <<>>)
    /\ [][/\ (usersToAdd' # usersToAdd \/ usersToRemove' # usersToRemove)
                 => (submits' = submits \/ (usersToAdd' = <<>> /\ usersToRemove' = <<>>))
          /\ (submits' # submits /\ handleSubmit) =>
                \E new \in BagToSet(submits') :
                    /\ submits' = submits (+) SetToBag({new})
                    /\ new.usersToAdd = usersToAdd /\ new.usersToRemove = usersToRemove
          /\ \A rec \in InFlight, k \in 1..MaxUsers, res \in Results :
                (submits' # submits /\ submits' # Others(rec)
                    /\ (ResolveRemove(rec, k, res) \/ ResolveAdd(rec, k, res)))
                    => \E now \in BagToSet(submits') :
                          /\ submits' = Others(rec) (+) SetToBag({now})
                          /\ SameSnapshot(rec, now)]_vars

C15_Witness ==
    /\ lastOp.op \in {"addUsers", "removeUser"}
    /\ \E rec \in InFlight :
          /\ rec.pc = "awaitAdd" /\ rec.removeCalls # <<>>
          /\ CallIds(rec.addCalls) = rec.usersToAdd
          /\ rec.usersToAdd # usersToAdd

\* a submit returns in this step that issued an updateUserRoles call for user u
ReturnsHavingCalled(u) ==
    \E rec \in InFlight, k \in 1..MaxUsers, res \in Results :
        /\ Returns(rec, k, res)
        /\ u \in Range(CallIds(rec.removeCalls)) \cup Range(CallIds(rec.addCalls))

\* C16: a pending addition or removal leaves its map only when the opposite operation
\* for the same user cancels it, or when a submit returns that issued an
\* updateUserRoles call for that user.
C16_PendingLeavesOnlySaved ==
    [][\A u \in Users :
          /\ (Has(usersToAdd, u) /\ ~Has(usersToAdd', u))
                => removeUserFromRole(u) \/ ReturnsHavingCalled(u)
          /\ (Has(usersToRemove, u) /\ ~Has(usersToRemove', u))
                => \/ \E users \in UserLists : u \in Range(users) /\ addUsersToRole(users)
                   \/ ReturnsHavingCalled(u)]_vars

\* C17: serverError is null initially; it is written only when a submit returns, to
\* an error exactly when one of that submit's calls returned an error and to null
\* otherwise; addUsers, removeUser and updatePermission leave it as it is.
C17_ServerErrorOfLastSubmit ==
    /\ serverError = NoError
    /\ [][/\ serverError' # serverError =>
              \/ ReturnsAtOnce
              \/ \E rec \in InFlight, k \in 1..MaxUsers, res \in Results : Returns(rec, k, res)
          /\ ReturnsAtOnce => serverError' = NoError
          /\ \A rec \in InFlight, k \in 1..MaxUsers, res \in Results :
                Returns(rec, k, res) =>
                    (serverError' # NoError <=> Failed(Resolve(rec, k, res)))]_vars

C17_Witness ==
    /\ lastOp.op = "return" /\ lastOp.outcome = "ok" /\ lastOp.nRemove + lastOp.nAdd > 0
    /\ serverError = NoError
    /\ submits = EmptyBag /\ saveKey > 1

====
